---- MODULE Spec2Model ----
(***************************************************************************)
(* Smart LaTeX build tool (src/src/smlmk.py): toolchain resolution, the    *)
(* sequential build cycle of main.run_build_cycle, the log filter and the  *)
(* debounced watch handler.                                                *)
(*                                                                         *)
(* Time is counted in ticks of 0.1 s.  File names are records              *)
(* [stem, ext]; a command template is a record [exe, opts, arg] whose arg  *)
(* is "{file}.tex" or "{file}".                                            *)
(***************************************************************************)
EXTENDS Integers, Sequences, FiniteSets, TLC

VARIABLES
    args,            \* parsed command line (argparse namespace)
    file_basenames,  \* resolve_target's basenames; <<>> stands for None
    config,          \* the parsed .pdfmake mapping (keys may be absent)
    tex_head,        \* leading lines of each existing document
    files,           \* names present in the working directory
    pc,              \* position of the main thread: "start" | "cycle" |
                     \* "watching" | "joining" | "done" | "exit1" | "crash" |
                     \* "interrupted"
    runner,          \* who runs the current build cycle: "main" | "handler"
    cpc,             \* position inside run_build_cycle: "idle" | "enter" |
                     \* "validate" | "job" | "step" | "wait" | "rename" | "post"
    jobs,            \* run_build_cycle's jobs list
    ji,              \* index of the job the for loop is at (1-based)
    si,              \* index of the rule build() is at (1-based)
    rules,           \* rules of the current job
    total_success,   \* run_build_cycle's total_success
    spawned,         \* external processes spawned by the current cycle, with
                     \* their exit code (Running until they exit)
    renamed,         \* renames done by the current cycle
    results,         \* build()'s return value for each job of the current cycle
    observer,        \* "none" | "running" | "stopped" | "dead"
    queue,           \* the observer's event queue
    now,             \* time.time(), in ticks
    last_triggered,  \* BuildHandler.last_triggered, in ticks
    calls,           \* the latest on_any_event invocation on a non-artifact path
    changes,         \* file changes raised so far
    rb_in,           \* generate_build_rules: the config under test and what
                     \* detect_compiler gave for the document
    rb_out,          \* generate_build_rules: returned rules
    stdout_content,  \* print_error_summary: the lines of its argument
    printed,         \* print_error_summary: what it printed
    fpc              \* position of the pure-function harness

vars == <<args, file_basenames, config, tex_head, files, pc, runner, cpc, jobs,
          ji, si, rules, total_success, spawned, renamed, results, observer,
          queue, now, last_triggered, calls, changes, rb_in, rb_out,
          stdout_content, printed, fpc>>

cycleVars == <<cpc, jobs, ji, si, rules, total_success, spawned, renamed, results>>
inputVars == <<args, file_basenames, config, tex_head>>
watchVars == <<observer, queue, now, last_triggered, calls, changes>>
pureVars  == <<rb_in, rb_out, stdout_content, printed, fpc>>

(***************************************************************************)
(* Bounds of the model.                                                    *)
(***************************************************************************)
MaxChain   == 3    \* longest explicit tool_chain drawn for generate_build_rules
MaxLines   == 22   \* longest output drawn for print_error_summary
MaxChanges == 2    \* file changes raised while watching
MaxQueue   == 2    \* events waiting in the observer's queue
Epoch      == 6    \* time.time() when the observer starts
Horizon    == 11   \* ticks observed after the observer starts

(***************************************************************************)
(* Program constants.                                                      *)
(***************************************************************************)
TailLines        == 20   \* lines[-20:]
DebounceInterval == 5    \* debounce_interval = 0.5 s
HeadLines        == 21   \* "if i > 20: break" on a 0-based index

Name(s, e) == [stem |-> s, ext |-> e]
None == Name("", "")
Truthy(n) == n /= None

Range(s) == {s[i] : i \in DOMAIN s}

\* str.lower() on an extension
LowerExt(e) ==
    CASE e = ".PDF" -> ".pdf"
      [] e = ".TEX" -> ".tex"
      [] OTHER -> e

(***************************************************************************)
(* TOOL_MAP and generate_build_rules                                       *)
(***************************************************************************)
TexOpts == "-file-line-error -interaction=nonstopmode"

Template(e, o, a) == [exe |-> e, opts |-> o, arg |-> a]

TOOL_MAP ==
    [t \in {"pdflatex", "xelatex", "lualatex", "latex", "dvipdfmx", "biber",
            "bibtex", "makeglossaries"} |->
        IF t \in {"pdflatex", "xelatex", "lualatex", "latex"}
        THEN Template(t, TexOpts, "{file}.tex")
        ELSE Template(t, "", "{file}")]

\* TOOL_MAP.get(real_tool, f"{real_tool} {{file}}")
ToolMapGet(real_tool) ==
    IF real_tool \in DOMAIN TOOL_MAP THEN TOOL_MAP[real_tool]
    ELSE Template(real_tool, "", "{file}")

EffectiveCompiler_detected_only(cfg, detected) == detected

\* config.get('compiler', detected)
EffectiveCompiler(cfg, detected) ==
    IF "compiler" \in DOMAIN cfg THEN cfg["compiler"] ELSE detected

\* 'tool_chain' in config and config['tool_chain']
HasToolChain(cfg) ==
    "tool_chain" \in DOMAIN cfg /\ cfg["tool_chain"] /= <<>>

DefaultChain_no_dvi(compiler) ==
    <<compiler, "biber", compiler, compiler>>

DefaultChain(compiler) ==
    IF compiler = "latex"
    THEN <<compiler, "biber", compiler, compiler, "dvipdfmx">>
    ELSE <<compiler, "biber", compiler, compiler>>

ChainNames(cfg, compiler) ==
    IF HasToolChain(cfg) THEN cfg["tool_chain"] ELSE DefaultChain(compiler)

ResolveTool_first_only(chain_names, i, compiler) ==
    IF chain_names[i] = "compiler" /\ i = 1 THEN compiler ELSE chain_names[i]

\* the placeholder substitution of the rule loop, for entry i of the chain
ResolveTool(chain_names, i, compiler) ==
    IF chain_names[i] = "compiler" THEN compiler ELSE chain_names[i]

generate_build_rules(cfg, detected) ==
    LET compiler    == EffectiveCompiler(cfg, detected)
        chain_names == ChainNames(cfg, compiler)
    IN  [i \in 1..Len(chain_names) |->
            ToolMapGet(ResolveTool(chain_names, i, compiler))]

\* rule.format(file=file_basename)
Format(rule, file_basename) ==
    [exe  |-> rule.exe,
     opts |-> rule.opts,
     arg  |-> IF rule.arg = "{file}.tex" THEN Name(file_basename, ".tex")
              ELSE Name(file_basename, "")]

(***************************************************************************)
(* detect_compiler                                                         *)
(***************************************************************************)
\* a line of a document: plain text, "% !TEX program = <name>" (kind "program")
\* or "% !TEX <name>" with a recognised engine name (kind "bare")
TexLine(k, n) == [kind |-> k, name |-> n]

\* str.lower() on the name a directive gives
Lower(name) ==
    CASE name = "XeLaTeX" -> "xelatex"
      [] name = "LuaLaTeX" -> "lualatex"
      [] OTHER -> name

RECURSIVE FirstDirective(_, _)
FirstDirective(lines, i) ==
    IF i > Len(lines) \/ i > HeadLines THEN "pdflatex"
    ELSE IF lines[i].kind \in {"program", "bare"} THEN Lower(lines[i].name)
    ELSE FirstDirective(lines, i + 1)

\* the document cannot be opened: the except branch, then the fallback
detect_compiler(basename) ==
    IF Name(basename, ".tex") \in files
    THEN FirstDirective(tex_head[basename], 1)
    ELSE "pdflatex"

(***************************************************************************)
(* print_error_summary                                                     *)
(*                                                                         *)
(* A line is [shape, no]: no is its position in the output (so that two    *)
(* lines of the same shape differ), shape is what the two patterns and     *)
(* strip() see of its text:                                                *)
(*   plain    This is pdfTeX, Version 3.14                                 *)
(*   fl       ./main.tex:12: Undefined control sequence.                   *)
(*   bang     ! Undefined control sequence.                                *)
(*   bang_fl  ! Package x Error: see a.tex:3: here                         *)
(*   ctx      l.12 \foo                                                    *)
(*   ctx_ws   "   l.12 \foo  " (surrounded by blanks)                      *)
(*   ctx_tr   "l.12 \foo  " (followed by blanks)                            *)
(*   ctx_fl   l.12 see a.tex:3: here                                       *)
(***************************************************************************)
Shapes == {"plain", "fl", "bang", "bang_fl", "ctx", "ctx_ws", "ctx_tr", "ctx_fl"}

Line(s, n) == [shape |-> s, no |-> n]

\* re.compile(r'^.*:\d+:.*').match(line)
file_line_pattern(line) == line.shape \in {"fl", "bang_fl", "ctx_fl"}

\* re.compile(r'^! .*').match(line)
tex_error_pattern(line) == line.shape \in {"bang", "bang_fl"}

\* line.strip()
Strip(line) ==
    IF line.shape \in {"ctx_ws", "ctx_tr"} THEN Line("ctx", line.no) ELSE line

\* line.strip().startswith('l.')
StartsWithLDot(line) == Strip(line).shape \in {"ctx", "ctx_fl"}

IsMarker(line) == file_line_pattern(line) \/ tex_error_pattern(line)

Item(h, l) == [how |-> h, line |-> l]

LoopPrints_no_context(lines, i) ==
    IF IsMarker(lines[i]) THEN <<Item("marker", lines[i])>> ELSE <<>>

\* what the body of the for loop prints for line i
LoopPrints(lines, i) ==
    IF IsMarker(lines[i])
    THEN <<Item("marker", lines[i])>> \o
         (IF tex_error_pattern(lines[i]) /\ i + 1 <= Len(lines)
             /\ StartsWithLDot(lines[i + 1])
          THEN <<Item("context", Strip(lines[i + 1]))>>
          ELSE <<>>)
    ELSE <<>>

RECURSIVE LoopFrom(_, _)
LoopFrom(lines, i) ==
    IF i > Len(lines) THEN <<>>
    ELSE LoopPrints(lines, i) \o LoopFrom(lines, i + 1)

found_error(lines) == \E i \in DOMAIN lines : IsMarker(lines[i])

LastLines_first(lines) ==
    SubSeq(lines, 1, IF Len(lines) < TailLines THEN Len(lines) ELSE TailLines)

\* lines[-20:]
LastLines(lines) ==
    SubSeq(lines, IF Len(lines) > TailLines THEN Len(lines) - TailLines + 1 ELSE 1,
           Len(lines))

print_error_summary(lines) ==
    LoopFrom(lines, 1) \o
    (IF ~found_error(lines)
     THEN [i \in 1..Len(LastLines(lines)) |-> Item("tail", LastLines(lines)[i])]
     ELSE <<>>)

(***************************************************************************)
(* Harness of the two pure functions: the inputs are drawn by Init, one    *)
(* action applies the function.                                            *)
(***************************************************************************)
ToolNames == {"compiler", "biber", "latex", "mytool", "dvipdfmx"}

RECURSIVE SeqsUpTo(_, _)
SeqsUpTo(S, n) ==
    IF n = 0 THEN {<<>>}
    ELSE LET shorter == SeqsUpTo(S, n - 1)
         IN  shorter \cup {Append(q, x) : q \in shorter, x \in S}

NoConfig == [k \in {} |-> <<>>]

\* an event: whether its src_path ends with ".pdf", whether the change
\* happened while a triggered batch was running and less than the debounce
\* interval after its trigger, and whether the build cycle made the change
Event(p, c) == [pdf |-> p, early |-> c, own |-> FALSE]

\* the same for a change made by the build cycle itself: a file a toolchain
\* process wrote, the artifact renamed, a file clean() removed
OwnEvent(p, c) == [Event(p, c) EXCEPT !.own = TRUE]

\* an on_any_event invocation on a non-artifact path: when, for which event,
\* and whether it called the callback
Call(e, t, trig) == [ev |-> e, at |-> t, triggered |-> trig]

NoCall == Call(Event(FALSE, FALSE), 0, FALSE)

RuleConfigs ==
    LET comp  == {NoConfig} \cup
                 {("compiler" :> c) : c \in {"latex", "xelatex", "compiler", "mytex"}}
        chain == {NoConfig} \cup
                 {("tool_chain" :> t) : t \in SeqsUpTo(ToolNames, MaxChain)}
    IN  {c @@ t : c \in comp, t \in chain}

\* the leading lines of the documents drawn for detect_compiler
Heads ==
    LET text(n) == [i \in 1..n |-> TexLine("text", "")]
    IN  {<<>>,
         <<TexLine("text", ""), TexLine("program", "latex")>>,
         <<TexLine("program", "XeLaTeX"), TexLine("bare", "lualatex")>>,
         <<TexLine("bare", "LuaLaTeX"), TexLine("program", "latex")>>,
         <<TexLine("program", "myengine")>>,
         text(HeadLines - 1) \o <<TexLine("program", "xelatex")>>,
         text(HeadLines) \o <<TexLine("bare", "xelatex")>>}

LogInputs ==
    {[i \in 1..n |-> Line(IF i = p THEN s1 ELSE IF i = p + 1 THEN s2 ELSE "plain", i)] :
        n \in 0..MaxLines, p \in 1..MaxLines, s1 \in Shapes, s2 \in Shapes}

\* the build cycle and the watch loop at rest
MainAtRest ==
    /\ args = [clean |-> FALSE, build |-> FALSE, build_clean |-> FALSE,
               clean_build |-> FALSE, watch |-> FALSE, output |-> None]
    /\ file_basenames = <<>>
    /\ config = NoConfig
    /\ pc = "done"
    /\ runner = "main"
    /\ cpc = "idle"
    /\ jobs = <<>>
    /\ ji = 0
    /\ si = 0
    /\ rules = <<>>
    /\ total_success = TRUE
    /\ spawned = <<>>
    /\ renamed = <<>>
    /\ results = <<>>
    /\ observer = "none"
    /\ queue = <<>>
    /\ now = Epoch
    /\ last_triggered = 0
    /\ calls = NoCall
    /\ changes = 0

mainVars == <<inputVars, files, pc, runner, cycleVars, watchVars>>

\* the document a.tex with one of the heads, or no document to open; nothing
\* has been detected yet
InitRules ==
    /\ MainAtRest
    /\ tex_head \in {("a" :> h) : h \in Heads}
    /\ files \in {{}, {Name("a", ".tex")}}
    /\ rb_in \in [config : RuleConfigs, detected : {""}]
    /\ rb_out = <<>>
    /\ stdout_content = <<>>
    /\ printed = <<>>
    /\ fpc = "call"

CallGenerateBuildRules ==
    /\ fpc = "call"
    /\ rb_in' = [rb_in EXCEPT !.detected = detect_compiler("a")]
    /\ rb_out' = generate_build_rules(rb_in.config, detect_compiler("a"))
    /\ fpc' = "done"
    /\ UNCHANGED <<mainVars, stdout_content, printed>>

NextRules == CallGenerateBuildRules

SpecRules == InitRules /\ [][NextRules]_vars

InitLog ==
    /\ MainAtRest
    /\ tex_head = <<>>
    /\ files = {}
    /\ rb_in = [config |-> NoConfig, detected |-> "pdflatex"]
    /\ rb_out = <<>>
    /\ stdout_content \in LogInputs
    /\ printed = <<>>
    /\ fpc = "call"

CallPrintErrorSummary ==
    /\ fpc = "call"
    /\ printed' = print_error_summary(stdout_content)
    /\ fpc' = "done"
    /\ UNCHANGED <<mainVars, rb_in, rb_out, stdout_content>>

NextLog == CallPrintErrorSummary

SpecLog == InitLog /\ [][NextLog]_vars

(***************************************************************************)
(* The external tools and clean()                                          *)
(***************************************************************************)
\* the patterns of clean_files that match a file the tools below write
clean_files == <<".aux", ".log", ".dvi">>

\* a spawned process: a toolchain step of job j ("tool") or one rm of clean()
\* ("rm"), its command and its exit code
Proc(k, j, s, c, r) == [kind |-> k, job |-> j, step |-> s, cmd |-> c, rc |-> r]

\* subprocess.run(f"rm -rf {pattern}", shell=True, ...) for each pattern
CleanProcs ==
    [i \in 1..Len(clean_files) |->
        Proc("rm", 0, 0, [exe |-> "rm", opts |-> "-rf", arg |-> Name("*", clean_files[i])], 0)]

Cleaned(fs) == {f \in fs : f.ext \notin Range(clean_files)}

\* what a tool of TOOL_MAP leaves in the working directory; a tool the map
\* does not know is taken to write nothing there
ToolWrites(exe, basename, rc) ==
    CASE exe \in {"pdflatex", "xelatex", "lualatex"} ->
            {Name(basename, ".log"), Name(basename, ".aux")}
            \cup (IF rc = 0 THEN {Name(basename, ".pdf")} ELSE {})
      [] exe = "latex" ->
            {Name(basename, ".log"), Name(basename, ".aux")}
            \cup (IF rc = 0 THEN {Name(basename, ".dvi")} ELSE {})
      [] exe = "dvipdfmx" ->
            IF rc = 0 THEN {Name(basename, ".pdf")} ELSE {}
      [] exe \in {"biber", "bibtex", "makeglossaries"} ->
            {Name(basename, ".log")}
      [] OTHER -> {}

(***************************************************************************)
(* main and run_build_cycle                                                *)
(***************************************************************************)
Docs == {"a", "b"}

DocHeads ==
    [b \in Docs |->
        IF b = "a" THEN <<>>
        ELSE <<TexLine("text", ""), TexLine("program", "latex")>>]

OutLists ==
    {<<Name("x", "")>>,
     <<Name("a", ".tex")>>,
     <<Name("x", ".PDF")>>,
     <<Name("x", ""), Name("y", ".pdf")>>,
     <<Name("b", ""), Name("y", "")>>}

ChainConfigs ==
    {NoConfig, ("compiler" :> "latex"), ("tool_chain" :> <<"compiler", "mytool">>)}

MainConfigs ==
    {c @@ o : c \in ChainConfigs, o \in {NoConfig} \cup {("out" :> l) : l \in OutLists}}

SourceSets == {{Name(b, ".tex") : b \in S} : S \in SUBSET Docs}

Init ==
    /\ args \in [clean : BOOLEAN, build : BOOLEAN, build_clean : BOOLEAN,
                 clean_build : BOOLEAN, watch : BOOLEAN,
                 output : {None, Name("z", "")}]
    /\ file_basenames \in {<<>>, <<"a">>, <<"a", "b">>}
    /\ config \in MainConfigs
    /\ tex_head = DocHeads
    /\ files \in SourceSets
    /\ pc = "start"
    /\ runner = "main"
    /\ cpc = "idle"
    /\ jobs = <<>>
    /\ ji = 0
    /\ si = 0
    /\ rules = <<>>
    /\ total_success = TRUE
    /\ spawned = <<>>
    /\ renamed = <<>>
    /\ results = <<>>
    /\ observer = "none"
    /\ queue = <<>>
    /\ now = Epoch
    /\ last_triggered = 0
    /\ calls = NoCall
    /\ changes = 0
    /\ rb_in = [config |-> NoConfig, detected |-> "pdflatex"]
    /\ rb_out = <<>>
    /\ stdout_content = <<>>
    /\ printed = <<>>
    /\ fpc = "off"

\* the queue of the observer after the cycle has changed the files ws of the
\* watched directory (the working directory, line 375): while the observer
\* runs, one event for the files other than .pdf among them, then one for the
\* .pdf files
Emitted(ws) ==
    LET early == now - last_triggered < DebounceInterval
    IN  IF observer /= "running" THEN queue
        ELSE queue
             \o (IF \E f \in ws : f.ext /= ".pdf"
                 THEN <<OwnEvent(FALSE, early)>> ELSE <<>>)
             \o (IF \E f \in ws : f.ext = ".pdf"
                 THEN <<OwnEvent(TRUE, early)>> ELSE <<>>)

\* no_flags / do_build of run_build_cycle
no_flags ==
    ~(args.clean \/ args.build \/ args.build_clean \/ args.clean_build \/ args.watch)

do_build ==
    args.build \/ args.build_clean \/ args.clean_build \/ no_flags \/ args.watch

\* config.get('out', [])
out_files == IF "out" \in DOMAIN config THEN config["out"] ELSE <<>>

\* a fresh call of run_build_cycle by who
BeginCycle(who) ==
    /\ runner' = who
    /\ cpc' = "enter"
    /\ jobs' = <<>>
    /\ ji' = 0
    /\ si' = 0
    /\ rules' = <<>>
    /\ total_success' = TRUE
    /\ spawned' = <<>>
    /\ renamed' = <<>>
    /\ results' = <<>>

Return_exit_on_failure ==
    /\ cpc' = "idle"
    /\ IF runner = "main"
       THEN IF args.watch /\ total_success
            THEN pc' = "watching" /\ observer' = "running"
            ELSE pc' = "done" /\ observer' = observer
       ELSE pc' = pc /\ observer' = IF total_success THEN observer ELSE "dead"

\* run_build_cycle returns to its caller: main goes on to start the observer
\* (watch) or to the end of the program; the handler goes back to the
\* observer's dispatch loop
Return ==
    /\ cpc' = "idle"
    /\ IF runner = "main"
       THEN IF args.watch
            THEN pc' = "watching" /\ observer' = "running"
            ELSE pc' = "done" /\ observer' = observer
       ELSE UNCHANGED <<pc, observer>>

\* sys.exit(1), or an exception nobody catches, inside run_build_cycle: the
\* main thread leaves through the finally clause and the program ends; a
\* handler thread ends and delivers no further event
Leave(how) ==
    /\ cpc' = "idle"
    /\ IF runner = "main"
       THEN pc' = how /\ observer' = observer
       ELSE pc' = pc /\ observer' = "dead"

MainStart ==
    /\ pc = "start"
    /\ IF args.watch /\ file_basenames = <<>>
       THEN /\ pc' = "exit1"
            /\ UNCHANGED <<runner, cycleVars>>
       ELSE /\ pc' = "cycle"
            /\ BeginCycle("main")
    /\ UNCHANGED <<inputVars, files, watchVars, pureVars>>

\* lines 283-291: the early return, the clean-first pass, the clean-only return
CycleEnter ==
    /\ cpc = "enter"
    /\ IF file_basenames = <<>> /\ ~args.clean
       THEN /\ Return
            /\ UNCHANGED <<files, spawned>>
       ELSE /\ IF args.clean_build \/ args.clean
               THEN /\ spawned' = spawned \o CleanProcs
                    /\ files' = Cleaned(files)
               ELSE UNCHANGED <<files, spawned>>
            /\ IF ~do_build
               THEN Return
               ELSE cpc' = "validate" /\ UNCHANGED <<pc, observer>>
    /\ queue' = Emitted(files \ files')
    /\ UNCHANGED <<inputVars, runner, jobs, ji, si, rules, total_success, renamed,
                   results, now, last_triggered, calls, changes, pureVars>>

Job(b, o) == [basename |-> b, out |-> o]

FinalOut_list_first(i) ==
    IF out_files /= <<>> /\ i <= Len(out_files) THEN out_files[i]
    ELSE IF Truthy(args.output) THEN args.output
    ELSE None

\* lines 309-313: final_out of the job of document i (1-based)
FinalOut(i) ==
    IF Truthy(args.output) THEN args.output
    ELSE IF out_files /= <<>> /\ i <= Len(out_files) THEN out_files[i]
    ELSE None

\* lines 306-314
MakeJobs ==
    [i \in 1..Len(file_basenames) |-> Job(file_basenames[i], FinalOut(i))]

OutputCheck_list_only ==
    IF out_files /= <<>> /\ file_basenames = <<>> THEN "crash"
    ELSE IF out_files /= <<>> /\ Len(file_basenames) /= Len(out_files) THEN "exit1"
    ELSE "ok"

\* lines 297-303; len(None) raises TypeError
OutputCheck ==
    IF Truthy(args.output) /\ file_basenames = <<>> THEN "crash"
    ELSE IF Truthy(args.output) /\ Len(file_basenames) > 1 THEN "exit1"
    ELSE IF out_files /= <<>> /\ file_basenames = <<>> THEN "crash"
    ELSE IF out_files /= <<>> /\ Len(file_basenames) /= Len(out_files) THEN "exit1"
    ELSE "ok"

\* lines 293-317: validation, pairing, entry of the for loop
Validate ==
    /\ cpc = "validate"
    /\ IF OutputCheck /= "ok"
       THEN /\ Leave(OutputCheck)
            /\ UNCHANGED <<jobs, ji, total_success>>
       ELSE /\ jobs' = MakeJobs
            /\ total_success' = TRUE
            /\ IF MakeJobs = <<>>
               THEN cpc' = "post" /\ ji' = ji
               ELSE cpc' = "job" /\ ji' = 1
            /\ UNCHANGED <<pc, observer>>
    /\ UNCHANGED <<inputVars, files, runner, si, rules, spawned, renamed, results,
                   queue, now, last_triggered, calls, changes, pureVars>>

SourceExists_unchecked(basename) == TRUE

\* Path(f"{file_basename}.tex").exists()
SourceExists(basename) == Name(basename, ".tex") \in files

AfterFailedJob_continue(j, n) ==
    IF j < n THEN [cpc |-> "job", ji |-> j + 1] ELSE [cpc |-> "post", ji |-> j]

AfterFailedJob_retry(j, n) == [cpc |-> "job", ji |-> j]

\* lines 355-358: the else branch of "if success" leaves the for loop
AfterFailedJob(j, n) == [cpc |-> "post", ji |-> j]

\* lines 318-334 and 172-176: the head of the loop body and of build()
JobStart ==
    /\ cpc = "job"
    /\ LET basename == jobs[ji].basename
       IN  /\ rules' = generate_build_rules(config, detect_compiler(basename))
           /\ IF ~SourceExists(basename)
              THEN /\ results' = Append(results, FALSE)
                   /\ total_success' = FALSE
                   /\ cpc' = AfterFailedJob(ji, Len(jobs)).cpc
                   /\ ji' = AfterFailedJob(ji, Len(jobs)).ji
                   /\ si' = si
              ELSE /\ si' = 1
                   /\ cpc' = "step"
                   /\ UNCHANGED <<results, total_success, ji>>
    /\ UNCHANGED <<inputVars, files, pc, runner, jobs, spawned, renamed, watchVars,
                   pureVars>>

StepOutcome_ignore_rc(rc, idx, total) ==
    IF idx < total THEN "next" ELSE "built"

\* lines 182-195: what build() does after the rule at idx (1-based) exited with rc
StepOutcome(rc, idx, total) ==
    IF rc /= 0 THEN "failed"
    ELSE IF idx < total THEN "next"
    ELSE "built"

\* the exit code of a process that has not exited yet
Running == -1

\* lines 177-180: build() formats the rule at si and subprocess.run starts the
\* process
Spawn ==
    /\ cpc = "step"
    /\ spawned' = Append(spawned, Proc("tool", ji, si,
                                       Format(rules[si], jobs[ji].basename), Running))
    /\ cpc' = "wait"
    /\ UNCHANGED <<inputVars, files, pc, runner, jobs, ji, si, rules, total_success,
                   renamed, results, watchVars, pureVars>>

\* lines 180-195: the process exits, subprocess.run returns and build() goes on
Step ==
    /\ cpc = "wait"
    /\ \E rc \in {0, 1} :
        LET basename == jobs[ji].basename
            cmd      == spawned[Len(spawned)].cmd
            outcome  == StepOutcome(rc, si, Len(rules))
        IN  /\ spawned' = [spawned EXCEPT ![Len(spawned)].rc = rc]
            /\ files' = files \cup ToolWrites(cmd.exe, basename, rc)
            /\ queue' = Emitted(ToolWrites(cmd.exe, basename, rc))
            /\ CASE outcome = "failed" ->
                      /\ results' = Append(results, FALSE)
                      /\ total_success' = FALSE
                      /\ cpc' = AfterFailedJob(ji, Len(jobs)).cpc
                      /\ ji' = AfterFailedJob(ji, Len(jobs)).ji
                      /\ si' = si
                 [] outcome = "next" ->
                      /\ si' = si + 1
                      /\ cpc' = "step"
                      /\ UNCHANGED <<results, total_success, ji>>
                 [] outcome = "built" ->
                      /\ results' = Append(results, TRUE)
                      /\ cpc' = "rename"
                      /\ UNCHANGED <<total_success, ji, si>>
    /\ UNCHANGED <<inputVars, pc, runner, jobs, rules, renamed, observer, now,
                   last_triggered, calls, changes, pureVars>>

\* the exit code standing for a subprocess.run that raised instead of returning
Raised == -2

\* line 180 raises: text=True makes subprocess.run decode what the process
\* wrote, and output that is not valid in the locale's encoding raises
\* UnicodeDecodeError after the process has exited (with whatever code);
\* nothing in build(), run_build_cycle or on_any_event catches it
StepRaises ==
    /\ cpc = "wait"
    /\ \E rc \in {0, 1} :
        LET ws == ToolWrites(spawned[Len(spawned)].cmd.exe, jobs[ji].basename, rc)
        IN  files' = files \cup ws /\ queue' = Emitted(ws)
    /\ spawned' = [spawned EXCEPT ![Len(spawned)].rc = Raised]
    /\ Leave("crash")
    /\ UNCHANGED <<inputVars, runner, jobs, ji, si, rules, total_success, renamed,
                   results, now, last_triggered, calls, changes, pureVars>>

Dst_as_given(final_out) == final_out

\* lines 345-350: dst of a job whose final_out is set
Dst(final_out) ==
    IF LowerExt(final_out.ext) = ".pdf" THEN final_out
    ELSE Name(final_out.stem, ".pdf")

\* lines 336-354: the success branch, then the next turn of the for loop
JobFinish ==
    /\ cpc = "rename"
    /\ LET final_out == jobs[ji].out
           src       == Name(jobs[ji].basename, ".pdf")
           dst       == Dst(final_out)
       IN  IF Truthy(final_out) /\ src \in files /\ src /= dst
           THEN /\ files' = (files \ {src}) \cup {dst}
                /\ renamed' = Append(renamed, [job |-> ji, src |-> src, dst |-> dst])
                /\ queue' = Emitted({src})
           ELSE UNCHANGED <<files, renamed, queue>>
    /\ IF ji < Len(jobs)
       THEN ji' = ji + 1 /\ cpc' = "job"
       ELSE ji' = ji /\ cpc' = "post"
    /\ UNCHANGED <<inputVars, pc, runner, jobs, si, rules, total_success, spawned,
                   results, observer, now, last_triggered, calls, changes, pureVars>>

PostClean_whatever_result == args.build_clean

\* line 361: args.build_clean and total_success
PostClean == args.build_clean /\ total_success

\* lines 360-362, then the return of run_build_cycle
CyclePost ==
    /\ cpc = "post"
    /\ IF PostClean
       THEN /\ spawned' = spawned \o CleanProcs
            /\ files' = Cleaned(files)
       ELSE UNCHANGED <<files, spawned>>
    /\ queue' = Emitted(files \ files')
    /\ Return
    /\ UNCHANGED <<inputVars, runner, jobs, ji, si, rules, total_success, renamed,
                   results, now, last_triggered, calls, changes, pureVars>>

Next ==
    \/ MainStart
    \/ CycleEnter
    \/ Validate
    \/ JobStart
    \/ Spawn
    \/ Step
    \/ StepRaises
    \/ JobFinish
    \/ CyclePost

Spec == Init /\ [][Next]_vars

\* the same with the threads of the program running on and every external
\* process coming to its exit
SpecFair == Spec /\ WF_vars(Next)

(***************************************************************************)
(* The watch loop: the observer thread takes one event at a time from its  *)
(* queue and calls BuildHandler.on_any_event, which runs the build cycle   *)
(* itself before it returns.                                               *)
(***************************************************************************)
\* a file under the watched directory changes
FileChange ==
    /\ observer = "running"
    /\ changes < MaxChanges
    /\ Len(queue) < MaxQueue
    /\ \E p \in BOOLEAN :
        queue' = Append(queue,
                        Event(p, cpc /= "idle"
                                 /\ now - last_triggered < DebounceInterval))
    /\ changes' = changes + 1
    /\ UNCHANGED <<inputVars, files, pc, runner, cycleVars, observer, now,
                   last_triggered, calls, pureVars>>

\* time passes: while the observer thread waits on its empty queue, or while
\* it waits for an external process to exit
Tick ==
    /\ observer = "running"
    /\ \/ cpc = "idle" /\ queue = <<>>
       \/ cpc = "wait"
    /\ now < Epoch + Horizon
    /\ now' = now + 1
    /\ UNCHANGED <<inputVars, files, pc, runner, cycleVars, observer, queue,
                   last_triggered, calls, changes, pureVars>>

Elapsed_no_last(current_time, last) == current_time > DebounceInterval

Elapsed_at_least(current_time, last) == current_time - last >= DebounceInterval

\* current_time - self.last_triggered > self.debounce_interval
Elapsed(current_time, last) == current_time - last > DebounceInterval

IsArtifact_never(e) == FALSE

\* event.src_path.endswith('.pdf')
IsArtifact(e) == e.pdf

HandlerReturned_at_once == TRUE

\* line 255 calls run_build_cycle itself: on_any_event has returned, and the
\* observer thread can take the next event, when the cycle it started is over
HandlerReturned == cpc = "idle"

\* lines 246-255: on_any_event for the event at the head of the queue
Dispatch ==
    /\ observer = "running"
    /\ HandlerReturned
    /\ queue /= <<>>
    /\ queue' = Tail(queue)
    /\ LET e == Head(queue)
       IN  IF IsArtifact(e)
           THEN UNCHANGED <<runner, cycleVars, last_triggered, calls>>
           ELSE IF Elapsed(now, last_triggered)
           THEN /\ last_triggered' = now
                /\ calls' = Call(e, now, TRUE)
                /\ BeginCycle("handler")
           ELSE /\ calls' = Call(e, now, FALSE)
                /\ UNCHANGED <<runner, cycleVars, last_triggered>>
    /\ UNCHANGED <<inputVars, files, pc, observer, now, changes, pureVars>>

\* observer.join() returns when the observer thread has ended: after stop()
\* it ends once the handler call it is in, if any, has returned
JoinReturns == cpc = "idle"

\* Ctrl+C: KeyboardInterrupt is raised in the main thread.  In the sleep loop
\* of lines 378-380 the except clause calls observer.stop() and main goes on to
\* observer.join(); during the initial run_build_cycle of line 371 nothing
\* catches it: subprocess.run kills the process it waits for and raises on,
\* and the program ends through the finally clause
Interrupt ==
    /\ args.watch
    /\ \/ /\ pc = "watching"
          /\ pc' = "joining"
          /\ observer' = IF observer = "running" THEN "stopped" ELSE observer
          /\ UNCHANGED <<runner, cycleVars>>
       \/ /\ pc = "cycle"
          /\ pc' = "interrupted"
          /\ cpc' = "idle"
          /\ spawned' = [i \in DOMAIN spawned |->
                            IF spawned[i].rc = Running
                            THEN [spawned[i] EXCEPT !.rc = Raised] ELSE spawned[i]]
          /\ UNCHANGED <<observer, runner, jobs, ji, si, rules, total_success,
                         renamed, results>>
    /\ UNCHANGED <<inputVars, files, queue, now, last_triggered, calls, changes,
                   pureVars>>

\* line 384: observer.join() returns and main leaves through the finally clause
Join ==
    /\ pc = "joining"
    /\ JoinReturns
    /\ pc' = "done"
    /\ UNCHANGED <<inputVars, files, runner, cycleVars, observer, queue, now,
                   last_triggered, calls, changes, pureVars>>

WatchConfigs ==
    {c @@ o : c \in {("tool_chain" :> <<"compiler", "mytool">>)},
              o \in {NoConfig, ("out" :> <<Name("x", "")>>)}}

InitWatch ==
    /\ Init
    /\ args = [clean |-> FALSE, build |-> FALSE, build_clean |-> FALSE,
               clean_build |-> FALSE, watch |-> TRUE, output |-> None]
    /\ file_basenames \in {<<"a">>, <<"a", "b">>}
    /\ config \in WatchConfigs
    /\ Name("a", ".tex") \in files
    /\ files \subseteq {Name(b, ".tex") : b \in Range(file_basenames)}

NextWatch ==
    \/ Next
    \/ FileChange
    \/ Tick
    \/ Dispatch
    \/ Interrupt
    \/ Join

SpecWatch == InitWatch /\ [][NextWatch]_vars

(***************************************************************************)
(* Properties                                                              *)
(***************************************************************************)
\* the source document of basename is not in the working directory
Missing(basename) == Name(basename, ".tex") \notin files

ToolProcs == SelectSeq(spawned, LAMBDA p : p.kind = "tool")

CycleOver == pc \in {"done", "watching"} /\ cpc = "idle"

\* C1: batch short-circuit.  Once build() has returned failure for job k of
\* the running cycle, every toolchain process the cycle has spawned belongs to
\* a job up to k, every rename it has done belongs to a job before k, no
\* later job has a result, and the batch is marked failed.
C1_BatchShortCircuit ==
    \A k \in DOMAIN results :
        ~results[k] =>
            /\ \A p \in Range(ToolProcs) : p.job <= k
            /\ \A r \in Range(renamed) : r.job < k
            /\ Len(results) = k
            /\ total_success = FALSE

\* a finished two-job batch whose first job failed in a toolchain step while
\* the document of the second job was there to be built
C1_Witness ==
    /\ CycleOver
    /\ Len(jobs) = 2
    /\ results = <<FALSE>>
    /\ ToolProcs /= <<>>
    /\ ~Missing(jobs[2].basename)

ChainOf(j) == generate_build_rules(config, detect_compiler(jobs[j].basename))

StepsOf(j) == SelectSeq(ToolProcs, LAMBDA p : p.job = j)

\* C2: step short-circuit within a job.  The processes of a job are the rules
\* of its resolved chain in list order, starting at the first, each spawned
\* only when its predecessor exited with code 0; and build() returned success
\* for a job exactly when every rule of its chain ran and exited with code 0.
C2_StepShortCircuit ==
    /\ \A j \in DOMAIN jobs :
        \A i \in DOMAIN StepsOf(j) :
            /\ i <= Len(ChainOf(j))
            /\ StepsOf(j)[i].step = i
            /\ StepsOf(j)[i].cmd = Format(ChainOf(j)[i], jobs[j].basename)
            /\ i > 1 => StepsOf(j)[i - 1].rc = 0
    /\ \A j \in DOMAIN results :
        results[j] = (/\ Len(StepsOf(j)) = Len(ChainOf(j))
                      /\ \A i \in DOMAIN StepsOf(j) : StepsOf(j)[i].rc = 0)

\* a job whose second step exited nonzero after a first step that succeeded,
\* in a chain that has further rules
C2_Witness ==
    /\ CycleOver
    /\ results = <<FALSE>>
    /\ Len(StepsOf(1)) = 2
    /\ StepsOf(1)[1].rc = 0
    /\ StepsOf(1)[2].rc = 1
    /\ Len(ChainOf(1)) > 2

\* the configured out list is non-empty and its length differs from the
\* number of target documents
OutMismatch ==
    out_files /= <<>> /\ Len(out_files) /= Len(file_basenames)

\* C3: fail-fast on output-count mismatch.  With documents resolved and a
\* build requested, a mismatching out list means that the cycle spawns no
\* external process at all, cleanup commands included, and renames nothing.
C3_MismatchSpawnsNothing ==
    (file_basenames /= <<>> /\ do_build /\ OutMismatch) =>
        spawned = <<>> /\ renamed = <<>>

AnyMissing ==
    \E i \in DOMAIN file_basenames : Missing(file_basenames[i])

\* C4 as stated: a missing source document of any job of the batch means that
\* no toolchain process is spawned for any job and nothing is renamed.
C4_MissingAbortsWholeBatch ==
    AnyMissing => ToolProcs = <<>> /\ renamed = <<>>

\* C4, amended: a missing source document of job k means that no toolchain
\* process is spawned and nothing is renamed for job k or any later job; the
\* jobs before k are built and renamed as usual.
C4_MissingStopsAtJob ==
    \A k \in DOMAIN file_basenames :
        Missing(file_basenames[k]) =>
            /\ \A p \in Range(ToolProcs) : p.job < k
            /\ \A r \in Range(renamed) : r.job < k

\* a finished batch whose second document is missing and whose first job was
\* built before that was found out
C4_Witness ==
    /\ CycleOver
    /\ Len(jobs) = 2
    /\ Missing(jobs[2].basename)
    /\ results = <<TRUE, FALSE>>
    /\ ToolProcs /= <<>>

\* C5 as stated: the configured list entry comes first, the CLI override is
\* used only when no list is configured.
C5_ListBeforeOverride ==
    \A i \in DOMAIN jobs :
        jobs[i].out = IF out_files /= <<>> THEN out_files[i]
                      ELSE IF Truthy(args.output) THEN args.output
                      ELSE None

\* C5, amended: job i's desired output name is the CLI override (-o) when one
\* is given; only without an override is it entry i of the configured out
\* list when that list is present; otherwise the job has no rename.
C5_OverrideBeforeList ==
    \A i \in DOMAIN jobs :
        jobs[i].out = IF Truthy(args.output) THEN args.output
                      ELSE IF out_files /= <<>> THEN out_files[i]
                      ELSE None

\* an accepted batch of one document with a configured list of length one and
\* a CLI override
C5_Witness ==
    /\ Len(jobs) = 1
    /\ Len(out_files) = 1
    /\ Truthy(args.output)
    /\ jobs[1].out = args.output

\* C6: debounce.  Whenever on_any_event handles a non-artifact event: if it
\* starts a rebuild, at least the interval has passed since the previous
\* trigger; if it comes 0.1 s after a handled event that started a rebuild, it
\* starts none; if it comes 1.0 s after a handled event, it starts one.
C6_Debounce ==
    [][calls' /= calls =>
        /\ (calls'.triggered /\ last_triggered /= 0) =>
                calls'.at - last_triggered >= DebounceInterval
        /\ (calls.triggered /\ calls'.at - calls.at = 1) => ~calls'.triggered
        /\ (calls.triggered /\ calls'.at - calls.at = 10) => calls'.triggered]_vars

\* an event handled 0.1 s after the trigger of a rebuild, which started none
C6_Witness ==
    /\ last_triggered /= 0
    /\ calls.at - last_triggered = 1
    /\ ~calls.triggered

\* C7: coalescing is drop, not queue.  An event raised while a triggered batch
\* was running, less than the interval after its trigger, never starts a
\* rebuild when the handler comes to it.
C7_EarlyEventDropped ==
    calls.ev.early => ~calls.triggered

TemplateOf(name) ==
    IF name \in DOMAIN TOOL_MAP THEN TOOL_MAP[name]
    ELSE Template(name, "", "{file}")

\* C8: default chain synthesis.  Without a non-empty tool_chain and with
\* effective compiler c, the rules are the templates of c, biber, c, c,
\* followed by that of dvipdfmx exactly when c is latex.
C8_DefaultChain ==
    (fpc = "done" /\ ~HasToolChain(rb_in.config)) =>
        LET c == EffectiveCompiler(rb_in.config, rb_in.detected)
        IN  rb_out =
              IF c = "latex"
              THEN <<TemplateOf(c), TemplateOf("biber"), TemplateOf(c), TemplateOf(c),
                     TemplateOf("dvipdfmx")>>
              ELSE <<TemplateOf(c), TemplateOf("biber"), TemplateOf(c), TemplateOf(c)>>

\* the default chain of the legacy engine, detected from the document
C8_Witness ==
    /\ fpc = "done"
    /\ ~HasToolChain(rb_in.config)
    /\ "compiler" \notin DOMAIN rb_in.config
    /\ rb_in.detected = "latex"
    /\ Len(rb_out) = 5

\* C9: explicit chain resolution.  With a non-empty tool_chain the rules have
\* the length and order of the list; entry i is the template of the effective
\* compiler when the list says "compiler" and of the listed name otherwise,
\* a name outside TOOL_MAP giving the literal command "<name> {file}".
C9_ExplicitChain ==
    (fpc = "done" /\ HasToolChain(rb_in.config)) =>
        LET c     == EffectiveCompiler(rb_in.config, rb_in.detected)
            chain == rb_in.config["tool_chain"]
        IN  /\ Len(rb_out) = Len(chain)
            /\ \A i \in DOMAIN chain :
                rb_out[i] = TemplateOf(IF chain[i] = "compiler" THEN c ELSE chain[i])

\* a chain with the placeholder after its first entry and a tool TOOL_MAP
\* does not know
C9_Witness ==
    /\ fpc = "done"
    /\ HasToolChain(rb_in.config)
    /\ Len(rb_out) = 3
    /\ rb_in.config["tool_chain"][1] = "mytool"
    /\ rb_in.config["tool_chain"][3] = "compiler"
    /\ rb_out[1] = Template("mytool", "", "{file}")
    /\ rb_out[3] = TOOL_MAP["xelatex"]

NoMarker == \A i \in DOMAIN stdout_content : ~IsMarker(stdout_content[i])

\* C10: log filter fallback.  For an output without a marker line the excerpt
\* is its last 20 lines in their order, or all of them when there are fewer.
C10_TailFallback ==
    (fpc = "done" /\ NoMarker) =>
        LET n == Len(stdout_content)
            k == IF n < 20 THEN n ELSE 20
        IN  /\ Len(printed) = k
            /\ \A j \in 1..k : printed[j] = Item("tail", stdout_content[n - k + j])

\* an output of more than 20 lines without a marker, one of them a context line
C10_Witness ==
    /\ fpc = "done"
    /\ NoMarker
    /\ Len(stdout_content) > 20
    /\ \E i \in DOMAIN stdout_content : StartsWithLDot(stdout_content[i])
    /\ Len(printed) = 20

\* the text of the line starts with "l." (no blank before it)
BeginsWithLDot(line) == line.shape \in {"ctx", "ctx_tr", "ctx_fl"}

\* the text of the line starts with "! "
BeginsWithBang(line) == line.shape \in {"bang", "bang_fl"}

\* the line carries "<something>:<digits>:" or starts with "! "
MarkerLine(line) == line.shape \in {"fl", "bang", "bang_fl", "ctx_fl"}

\* the line without the blanks at its two ends
Trimmed(line) ==
    [line EXCEPT !.shape = IF @ \in {"ctx_ws", "ctx_tr"} THEN "ctx" ELSE @]

Markers(s) == SelectSeq(s, LAMBDA it : it.how = "marker")

\* C11: log filter, markers and context.  The marker items of the excerpt are
\* the marker lines of the output, each as it stands and in the order of the
\* output; a line starting with "l." that comes right after a line starting
\* with "! " is printed (without the blanks around it) right after that line;
\* and an excerpt of an output with a marker line has no tail item.
C11_MarkersAndContext ==
    fpc = "done" =>
        /\ [i \in 1..Len(Markers(printed)) |-> Markers(printed)[i].line]
             = SelectSeq(stdout_content, MarkerLine)
        /\ \A i \in DOMAIN stdout_content :
             (BeginsWithBang(stdout_content[i]) /\ i + 1 <= Len(stdout_content)
              /\ BeginsWithLDot(stdout_content[i + 1])) =>
                \E k \in DOMAIN printed :
                    /\ printed[k] = Item("marker", stdout_content[i])
                    /\ k + 1 <= Len(printed)
                    /\ printed[k + 1] = Item("context", Trimmed(stdout_content[i + 1]))
        /\ (\E i \in DOMAIN stdout_content : MarkerLine(stdout_content[i])) =>
             \A k \in DOMAIN printed : printed[k].how /= "tail"

\* an error line followed by its context line, which is a marker line itself:
\* the excerpt is the error line, the context line, the context line again
C11_Witness ==
    /\ fpc = "done"
    /\ \E i \in DOMAIN stdout_content :
         /\ i + 1 <= Len(stdout_content)
         /\ stdout_content[i].shape = "bang"
         /\ stdout_content[i + 1].shape = "ctx_fl"
         /\ printed = <<Item("marker", stdout_content[i]),
                        Item("context", stdout_content[i + 1]),
                        Item("marker", stdout_content[i + 1])>>

\* the name the artifact of a job is to have: its final_out with the
\* extension .pdf (in either case) kept, or put in the place of .tex or of none
Desired(out) ==
    IF out.ext \in {".pdf", ".PDF"} THEN out ELSE Name(out.stem, ".pdf")

\* the step that ends the success branch of a job
RenameStep == cpc = "rename" /\ cpc' /= "rename"

\* C12: output rename.  At the end of a job whose steps all succeeded: if the
\* job has an output name, that name (carrying the .pdf extension, in either
\* case) is not <basename>.pdf, and the chain has left <basename>.pdf, then
\* afterwards the artifact is there under the output name and no longer
\* under <basename>.pdf; if the job has no output name or its name is
\* <basename>.pdf, no file changes.  No rename is ever recorded for a job
\* that build() reported as failed.
C12_OutputRename ==
    /\ [][RenameStep =>
            LET out     == jobs[ji].out
                default == Name(jobs[ji].basename, ".pdf")
            IN  IF out /= None /\ Desired(out) /= default /\ default \in files
                THEN /\ Desired(out).ext \in {".pdf", ".PDF"}
                     /\ Desired(out) \in files'
                     /\ default \notin files'
                     /\ renamed' = Append(renamed, [job |-> ji, src |-> default,
                                                    dst |-> Desired(out)])
                ELSE files' = files /\ renamed' = renamed]_vars
    /\ [](\A r \in Range(renamed) : r.job <= Len(results) /\ results[r.job])

\* a.pdf has been renamed to x.pdf for the output name x, and the batch went
\* on to a second job, which failed and was not renamed
C12_Witness ==
    /\ Len(jobs) = 2
    /\ jobs[1] = Job("a", Name("x", ""))
    /\ jobs[2].out /= None
    /\ results = <<TRUE, FALSE>>
    /\ renamed = <<[job |-> 1, src |-> Name("a", ".pdf"), dst |-> Name("x", ".pdf")]>>
    /\ Name("x", ".pdf") \in files
    /\ Name("a", ".pdf") \notin files

\* the cycle is past the validation of lines 293-303
Validated == cpc \in {"job", "step", "wait", "rename", "post"}

\* C13: cardinality of the command-line override.  With -o and more than one
\* target document, a cycle that is to build never gets past the validation:
\* it has no job, spawns no toolchain process, renames nothing, and the
\* program can only end with exit status 1.  With -o and exactly one target
\* document (and no out list of another length) the cycle is not rejected and
\* its one job carries the override as its output name.
C13_OverrideCardinality ==
    /\ (args.output /= None /\ Len(file_basenames) > 1) =>
            /\ ~Validated
            /\ jobs = <<>> /\ ToolProcs = <<>> /\ renamed = <<>> /\ results = <<>>
            /\ (do_build /\ pc \notin {"start", "cycle"}) => pc = "exit1"
    /\ (args.output /= None /\ Len(file_basenames) = 1
        /\ Len(out_files) \in {0, 1}) =>
            /\ pc /= "exit1"
            /\ Validated => jobs = <<Job(file_basenames[1], args.output)>>

\* the program has ended with status 1 on -o z for the documents a and b,
\* both there to be built, after the clean-first pass
C13_Witness ==
    /\ pc = "exit1"
    /\ args.output = Name("z", "")
    /\ args.clean_build
    /\ file_basenames = <<"a", "b">>
    /\ ~Missing("a") /\ ~Missing("b")
    /\ spawned = CleanProcs

\* the toolchain processes that have been started and have not exited
Live == {i \in DOMAIN spawned : spawned[i].rc = Running}

\* C14: strictly sequential execution.  At most one external process is
\* running, and it is the step the one executing cycle is waiting for, of the
\* job the cycle is at, all earlier jobs having their result; the toolchain
\* processes of a cycle are in the order of its jobs; while main runs the
\* initial batch no observer exists; and a rebuild is triggered only while no
\* cycle is executing and no process is running.
C14_Sequential ==
    /\ [](/\ Cardinality(Live) <= 1
          /\ \A i \in Live :
                /\ i = Len(spawned)
                /\ cpc = "wait"
                /\ spawned[i].job = ji /\ spawned[i].step = si
                /\ Len(results) = ji - 1
                /\ \A r \in Range(renamed) : r.job < ji
          /\ \A i, k \in DOMAIN ToolProcs :
                i < k => \/ ToolProcs[i].job < ToolProcs[k].job
                         \/ /\ ToolProcs[i].job = ToolProcs[k].job
                            /\ ToolProcs[i].step < ToolProcs[k].step
          /\ pc = "cycle" => observer = "none" /\ runner = "main"
          /\ (cpc /= "idle" /\ runner = "handler") => pc \in {"watching", "joining"})
    /\ [][last_triggered' /= last_triggered =>
            cpc = "idle" /\ Live = {} /\ pc = "watching" /\ cpc' = "enter"]_vars

\* the second job of a rebuild is waiting for its first process, after the
\* two processes of the first job have exited
C14_Witness ==
    /\ runner = "handler"
    /\ cpc = "wait"
    /\ ji = 2 /\ si = 1
    /\ Len(spawned) = 3
    /\ Live = {3}
    /\ results = <<TRUE>>

\* C15: an unexpected exception is a failed step.  When the subprocess.run of
\* a toolchain step has raised, build() has returned failure for the job (so
\* that the batch is marked failed and stops there) and the exception has
\* reached neither main nor the observer thread.
C15_ExceptionIsFailedStep ==
    \A p \in Range(ToolProcs) :
        p.rc = Raised =>
            /\ Len(results) = p.job
            /\ ~results[p.job]
            /\ ~total_success
            /\ pc /= "crash"
            /\ observer /= "dead"

\* a cycle with a failed job (a step exited nonzero or the source document is
\* missing) returns, rather than being cut short by Ctrl+C
FailedBatchEnds ==
    cpc = "post" /\ cpc' = "idle" /\ ~total_success /\ pc' /= "interrupted"

\* the observer thread hands a change of a file other than a .pdf to the
\* handler, more than the debounce interval after the last trigger
PassingEvent ==
    /\ queue /= <<>> /\ queue' = Tail(queue)
    /\ ~Head(queue).pdf
    /\ now - last_triggered > DebounceInterval

\* C16: watching survives a failed batch.  In watch mode, when a batch that
\* has failed returns, the initial one leaves main with the observer started
\* and a rebuild leaves the observer as it was; and the next change event that
\* passes the debounce test while the observer runs starts a fresh cycle on
\* the observer thread.
C16_WatchSurvivesFailure ==
    /\ [][(args.watch /\ FailedBatchEnds) =>
            IF runner = "main"
            THEN pc' = "watching" /\ observer' = "running"
            ELSE pc' = pc /\ observer' = observer /\ observer /= "dead"]_vars
    /\ [][(observer = "running" /\ cpc = "idle" /\ ~total_success /\ PassingEvent) =>
            /\ cpc' = "enter" /\ runner' = "handler"
            /\ jobs' = <<>> /\ spawned' = <<>> /\ results' = <<>>
            /\ total_success' = TRUE
            /\ last_triggered' = now
            /\ observer' = "running"]_vars

\* a rebuild has failed in its second job and returned; the observer runs and
\* an event that came during the rebuild is due, past the debounce interval
C16_Witness ==
    /\ pc = "watching" /\ observer = "running"
    /\ runner = "handler" /\ cpc = "idle"
    /\ results = <<TRUE, FALSE>> /\ ~total_success
    /\ queue /= <<>> /\ ~Head(queue).pdf
    /\ now - last_triggered > DebounceInterval

\* the program has received Ctrl+C
Interrupted == pc \in {"joining", "interrupted"} \/ (pc = "done" /\ observer = "stopped")

\* C17: cancellation.  In watch mode, once Ctrl+C has been received the
\* observer is not running, no build cycle is started, and the program ends
\* only when the cycle that was executing at that moment has run to its end.
C17_Cancellation ==
    /\ [](Interrupted => observer /= "running")
    /\ [][Interrupted => ~(cpc = "idle" /\ cpc' /= "idle")]_vars
    /\ [][(args.watch /\ ~Interrupted /\ Interrupted') =>
            (cpc /= "idle" => cpc' = cpc /\ pc' = "joining")]_vars
    /\ [][(pc = "joining" /\ pc' /= "joining") => cpc = "idle"]_vars

\* C18: no self-retriggering.  The handler never calls the callback for an
\* event raised by a file the build cycle itself wrote, renamed or removed.
C18_NoSelfRetrigger ==
    calls.ev.own => ~calls.triggered

\* C19: per-job precondition.  Once build() has been entered for a job whose
\* source document does not exist, the job has the result failure and the
\* cycle has spawned no toolchain process for it, whatever its rules are.
C19_MissingSourceSpawnsNothing ==
    \A j \in DOMAIN jobs :
        (Missing(jobs[j].basename) /\ (ji > j \/ (ji = j /\ cpc /= "job"))) =>
            /\ Len(results) >= j /\ ~results[j]
            /\ \A p \in Range(ToolProcs) : p.job /= j

\* the second job of a batch has failed on its missing document b.tex, whose
\* chain would have been latex and dvipdfmx, after the first job was built
C19_Witness ==
    /\ Len(jobs) = 2
    /\ Missing("b")
    /\ results = <<TRUE, FALSE>>
    /\ "compiler" \in DOMAIN config /\ config["compiler"] = "latex"
    /\ Len(rules) = 5
    /\ ToolProcs /= <<>>
    /\ \A p \in Range(ToolProcs) : p.job = 1

\* C20 as claimed: the handler, called for a change of a file other than a
\* .pdf, starts a rebuild exactly when at least the debounce interval has
\* passed since the last trigger.
C20_TriggersAtInterval ==
    [][calls' /= calls =>
        (calls'.triggered <=> calls'.at - last_triggered >= DebounceInterval)]_vars

\* C20: debounce boundary.  The handler, called for a change of a file other
\* than a .pdf, starts a rebuild exactly when more than the debounce interval
\* has passed since the last trigger: an event handled exactly 0.5 s after
\* the last trigger starts none, and the first event handled after the
\* observer has started always starts one.
C20_TriggersAfterInterval ==
    [][calls' /= calls =>
        /\ calls'.triggered <=> calls'.at - last_triggered > DebounceInterval
        /\ calls'.at - last_triggered = DebounceInterval => ~calls'.triggered
        /\ last_triggered = 0 => calls'.triggered]_vars

\* an event handled exactly 0.5 s after the trigger of a rebuild, which
\* started none
C20_Witness ==
    /\ last_triggered /= 0
    /\ calls.at - last_triggered = DebounceInterval
    /\ ~calls.triggered

\* the rm processes the cycle has spawned
RmProcs == SelectSeq(spawned, LAMBDA p : p.kind = "rm")

\* every job of the cycle has been built with success
AllJobsSucceeded ==
    Len(results) = Len(jobs) /\ \A j \in DOMAIN results : results[j]

\* C21: cleanup ordering.  Under -cb the rm processes of one cleanup pass
\* precede every toolchain process of the cycle.  After the clean-first pass,
\* rm processes are spawned only at the end of a cycle under -bc all of whose
\* jobs succeeded (the renames being done), and such a cycle does not return
\* without them.  An invocation with -c alone spawns the rm processes of one
\* pass and no toolchain process.
C21_CleanupOrdering ==
    /\ []((args.clean_build /\ ToolProcs /= <<>>) =>
            /\ Len(spawned) > Len(clean_files)
            /\ \A i \in 1..Len(clean_files) : spawned[i].kind = "rm")
    /\ [][(cpc /= "enter" /\ RmProcs' /= RmProcs) =>
            /\ cpc = "post" /\ args.build_clean /\ AllJobsSucceeded
            /\ Len(RmProcs') = Len(RmProcs) + Len(clean_files)
            /\ spawned' = spawned \o SubSeq(RmProcs', Len(RmProcs) + 1, Len(RmProcs'))
            /\ renamed' = renamed /\ results' = results]_vars
    /\ [][(cpc = "post" /\ cpc' = "idle" /\ pc /= pc' /\ args.build_clean
           /\ AllJobsSucceeded) =>
            Len(RmProcs') = Len(RmProcs) + Len(clean_files)]_vars
    /\ []((args.clean /\ ~do_build) =>
            /\ ToolProcs = <<>>
            /\ pc = "done" => Len(spawned) = Len(clean_files) /\ RmProcs = spawned)

\* a -bc batch of two jobs, built and renamed, has ended with the cleanup pass
C21_Witness ==
    /\ pc = "done"
    /\ args.build_clean /\ ~args.clean /\ ~args.clean_build
    /\ results = <<TRUE, TRUE>>
    /\ Len(renamed) = 2
    /\ spawned[1].kind = "tool"
    /\ Len(RmProcs) = Len(clean_files)
    /\ spawned[Len(spawned)].kind = "rm"

\* the positions among the first 21 lines of a.tex that hold a directive
DirectiveLines ==
    {i \in DOMAIN tex_head["a"] : i <= 21 /\ tex_head["a"][i].kind \in {"program", "bare"}}

\* the name a directive gives, in lower case
InLowerCase(name) ==
    IF name = "XeLaTeX" THEN "xelatex"
    ELSE IF name = "LuaLaTeX" THEN "lualatex"
    ELSE name

\* the compiler C22 names for the config and document under test
NamedCompiler ==
    IF "compiler" \in DOMAIN rb_in.config THEN rb_in.config["compiler"]
    ELSE IF Name("a", ".tex") \in files /\ DirectiveLines /= {}
    THEN InLowerCase(tex_head["a"][CHOOSE i \in DirectiveLines :
                                       \A k \in DirectiveLines : i <= k].name)
    ELSE "pdflatex"

\* the places of the rules where the effective compiler stands: those of the
\* placeholder in an explicit chain, the first, third and fourth otherwise
CompilerPlaces ==
    IF HasToolChain(rb_in.config)
    THEN {i \in DOMAIN rb_in.config["tool_chain"] :
            rb_in.config["tool_chain"][i] = "compiler"}
    ELSE {1, 3, 4}

\* C22: effective compiler precedence.  The rules generate_build_rules returns
\* for a document carry, wherever the effective compiler stands, the template
\* of config.compiler when the key is present, whatever the document says;
\* otherwise that of the name (in lower case) given by the first directive
\* among the first 21 lines of the document; and that of pdflatex when there
\* is no such directive or the document cannot be opened.
C22_CompilerPrecedence ==
    (fpc = "done" /\ "a" \in DOMAIN tex_head) =>
        \A i \in CompilerPlaces : rb_out[i] = TemplateOf(NamedCompiler)

\* config.compiler is latex while the document asks for XeLaTeX: the default
\* chain is that of latex
C22_Witness ==
    /\ fpc = "done"
    /\ "a" \in DOMAIN tex_head
    /\ Name("a", ".tex") \in files
    /\ tex_head["a"] /= <<>>
    /\ tex_head["a"][1] = TexLine("program", "XeLaTeX")
    /\ rb_in.detected = "xelatex"
    /\ rb_in.config = ("compiler" :> "latex")
    /\ Len(rb_out) = 5
    /\ rb_out[1] = TOOL_MAP["latex"]

\* the observer thread hands the event at the head of its queue to the handler
Handled == queue /= <<>> /\ queue' = Tail(queue)

\* C23: artifact events leave the watch state unchanged.  When the handler is
\* called for an event on a .pdf path, no build cycle starts and the debounce
\* timestamp, like the rest of the handler's and the cycle's state, stays as
\* it is; and the debounce timestamp changes only in a handler call for an
\* event on another path, to the time of that call.
C23_ArtifactEventsIgnored ==
    /\ [][(Handled /\ Head(queue).pdf) =>
            /\ last_triggered' = last_triggered
            /\ calls' = calls
            /\ cpc = "idle" /\ cpc' = "idle"
            /\ UNCHANGED <<runner, jobs, spawned, renamed, results, files, pc,
                           observer>>]_vars
    /\ [][last_triggered' /= last_triggered =>
            /\ Handled /\ ~Head(queue).pdf
            /\ last_triggered' = now]_vars

\* the one change raised since the observer started was on a .pdf path and
\* has been handled: no call is recorded for it, the timestamp is untouched
C23_Witness ==
    /\ pc = "watching" /\ observer = "running"
    /\ changes = 1
    /\ queue = <<>>
    /\ cpc = "idle" /\ runner = "main"
    /\ calls = NoCall
    /\ last_triggered = 0

\* the name under which the artifact of job j is to be left
EffectiveName(j) ==
    IF jobs[j].out = None THEN Name(jobs[j].basename, ".pdf")
    ELSE Desired(jobs[j].out)

\* C24: the outputs of a batch are preserved.  In a cycle whose jobs have
\* pairwise distinct effective output names, an artifact that has been renamed
\* to its output name is still there under that name at every later point of
\* the cycle, and at the end of a cycle whose jobs all succeeded.
C24_OutputsPreserved ==
    (\A i, j \in DOMAIN jobs : i /= j => EffectiveName(i) /= EffectiveName(j)) =>
        \A r \in Range(renamed) :
            /\ r.dst = EffectiveName(r.job)
            /\ r.dst \in files

RECURSIVE SumOfChains(_)
SumOfChains(n) == IF n = 0 THEN 0 ELSE Len(ChainOf(n)) + SumOfChains(n - 1)

\* C25: bounded work per build cycle.  A cycle spawns no rule of a job's chain
\* twice and none beyond the chain, so that its toolchain processes number at
\* most the sum of the chain lengths of its jobs; no job gets a second
\* result; and, every process coming to its exit, the cycle main has entered
\* comes to its end.
C25_BoundedWork ==
    /\ [](\A i, k \in DOMAIN ToolProcs :
            i /= k => <<ToolProcs[i].job, ToolProcs[i].step>>
                        /= <<ToolProcs[k].job, ToolProcs[k].step>>)
    /\ [](\A p \in Range(ToolProcs) :
            p.job \in DOMAIN jobs /\ p.step \in 1..Len(ChainOf(p.job)))
    /\ [](Len(ToolProcs) <= SumOfChains(Len(jobs)))
    /\ [](Len(results) <= Len(jobs))
    /\ (pc = "cycle" ~> pc /= "cycle")

\* a batch of two jobs has ended after running every rule of both chains
C25_Witness ==
    /\ pc = "done"
    /\ Len(jobs) = 2
    /\ results = <<TRUE, TRUE>>
    /\ Len(ToolProcs) = SumOfChains(2)
    /\ Len(ToolProcs) > 4

====
